---- MODULE Spec2Model ----
(***************************************************************************)
(* Model of factoryphysics.py: the ProductionLine class (its constructor   *)
(* and the six Factory Physics formulas) and df_scenarios, the table       *)
(* sweep over WIP levels 1..max_wip.                                       *)
(*                                                                         *)
(* Numbers are exact rationals <<n, d>> with d > 0 in lowest terms.  The   *)
(* pair <<0, 0>> is "no value": the evaluation raised ZeroDivisionError    *)
(* (Python's / on a zero divisor), and the exception propagates through    *)
(* every enclosing arithmetic expression.                                  *)
(***************************************************************************)
EXTENDS Integers, Sequences, FiniteSets, TLC

(* ------------------------------ bounds -------------------------------- *)
\* numerators of the numbers tried run over -MaxNeg..MaxNum
MaxNum == 3
MaxNeg == 1
\* denominators of the numbers tried run over 1..MaxDen
MaxDen == 2
\* df_scenarios is tried with max_wip in -MaxNeg..MaxWip
MaxWip == 3

(* ------------------------ rational arithmetic ------------------------- *)
Abs(n) == IF n < 0 THEN 0 - n ELSE n

RECURSIVE Gcd(_, _)
Gcd(a, b) == IF b = 0 THEN a ELSE Gcd(b, a % b)

\* n/d in lowest terms with a positive denominator (d # 0)
Rat(n, d) ==
    LET g == Gcd(Abs(n), Abs(d))
        s == IF d < 0 THEN 0 - 1 ELSE 1
    IN  <<(s * n) \div g, (s * d) \div g>>

NoValue == <<0, 0>>
IsNum(x) == x[2] # 0

Zero == Rat(0, 1)
One == Rat(1, 1)

\* Python's +, -, * on numbers; an operand that raised makes the expression raise
Add(a, b) ==
    IF IsNum(a) /\ IsNum(b) THEN Rat(a[1] * b[2] + b[1] * a[2], a[2] * b[2])
    ELSE NoValue

Sub(a, b) ==
    IF IsNum(a) /\ IsNum(b) THEN Rat(a[1] * b[2] - b[1] * a[2], a[2] * b[2])
    ELSE NoValue

Mul(a, b) ==
    IF IsNum(a) /\ IsNum(b) THEN Rat(a[1] * b[1], a[2] * b[2])
    ELSE NoValue

\* Python's true division: ZeroDivisionError on a zero divisor
Div(a, b) ==
    IF IsNum(a) /\ IsNum(b) /\ b[1] # 0 THEN Rat(a[1] * b[2], a[2] * b[1])
    ELSE NoValue

\* Python's <= and < on numbers
Le(a, b) == a[1] * b[2] <= b[1] * a[2]
Lt(a, b) == a[1] * b[2] < b[1] * a[2]

\* the numbers a caller passes: r_b, T_0 and w
Numbers == {Rat(n, d) : n \in (0 - MaxNeg)..MaxNum, d \in 1..MaxDen}
\* the label, which no formula and no column reads: the default, name=None
Names == {"None"}

(* ------------------------------- state -------------------------------- *)
VARIABLES
    r_b,      \* self.r_b
    T_0,      \* self.T_0
    W_0,      \* self.W_0
    _name,    \* self._name
    op,       \* the last call made on the object
    arg,      \* its argument: w, or max_wip (as a rational); NoValue if none
    ret,      \* the number it returned; NoValue if it returned none or raised
    df,       \* the table df_scenarios returned; <<>> otherwise
    exc       \* the exception the call raised, "None" if it returned

vars == <<r_b, T_0, W_0, _name, op, arg, ret, df, exc>>
self == <<r_b, T_0, W_0, _name>>

(* ---------------------------- the formulas ---------------------------- *)
\* the divisor of the second branch mistaken for T_0
CT_best_wrong_divisor(w) == IF Le(w, W_0) THEN T_0 ELSE Div(w, T_0)

CT_best(w) == IF Le(w, W_0) THEN T_0 ELSE Div(w, r_b)

\* the saturation at the bottleneck rate left out
TH_best_unsaturated(w) == Div(w, T_0)

TH_best(w) == IF Le(w, W_0) THEN Div(w, T_0) ELSE r_b

CT_worst(w) == Mul(w, T_0)

TH_worst == Div(One, T_0)

\* w in place of w - 1
CT_PWC_off_by_one(w) == Add(T_0, Div(w, r_b))

CT_PWC(w) == Add(T_0, Div(Sub(w, One), r_b))

\* the factor r_b left out
TH_PWC_no_rate(w) == Div(w, Sub(Add(W_0, w), One))

\* the - 1 of the denominator left out
TH_PWC_no_minus_one(w) == Mul(Div(w, Add(W_0, w)), r_b)

TH_PWC(w) == Mul(Div(w, Sub(Add(W_0, w), One)), r_b)

(* ----------------------------- operations ----------------------------- *)
\* ProductionLine(rb, t0, name): __init__ stores the arguments and W_0
ProductionLine(rb, t0, name) ==
    /\ r_b = rb
    /\ T_0 = t0
    /\ W_0 = Mul(rb, t0)
    /\ _name = name
    /\ op = "__init__"
    /\ arg = NoValue
    /\ ret = NoValue
    /\ df = <<>>
    /\ exc = "None"

Init == \E rb \in Numbers, t0 \in Numbers, name \in Names : ProductionLine(rb, t0, name)

\* a method call on the object: it returns v, or raises when v has no value
Call(method, w, v) ==
    /\ op' = method
    /\ arg' = w
    /\ ret' = v
    /\ exc' = IF IsNum(v) THEN "None" ELSE "ZeroDivisionError"
    /\ df' = <<>>
    /\ UNCHANGED self

Call_CT_best == \E w \in Numbers : Call("CT_best", w, CT_best(w))
Call_TH_best == \E w \in Numbers : Call("TH_best", w, TH_best(w))
Call_CT_worst == \E w \in Numbers : Call("CT_worst", w, CT_worst(w))
Call_TH_worst == Call("TH_worst", NoValue, TH_worst)
Call_CT_PWC == \E w \in Numbers : Call("CT_PWC", w, CT_PWC(w))
Call_TH_PWC == \E w \in Numbers : Call("TH_PWC", w, TH_PWC(w))

\* np.arange(start, stop): start, start+1, ..., stop-1
arange(start, stop) == [i \in 1..(stop - start) |-> start + i - 1]

\* the + 1 that includes the WIP level entered left out
index_without_last(max_wip) == arange(1, max_wip)

\* the index of the DataFrame, which is also its WIP column
index(max_wip) == arange(1, max_wip + 1)

\* one row of the DataFrame: the WIP level and the six columns
Row(wip) ==
    [WIP |-> wip,
     TH_Best_Case |-> TH_best(Rat(wip, 1)),
     TH_Worst_Case |-> TH_worst,
     TH_Practical_Worst_Case |-> TH_PWC(Rat(wip, 1)),
     CT_Best_Case |-> CT_best(Rat(wip, 1)),
     CT_Worst_Case |-> CT_worst(Rat(wip, 1)),
     CT_Practical_Worst_Case |-> CT_PWC(Rat(wip, 1))]

RowRaises(row) ==
    \/ ~IsNum(row.TH_Best_Case)
    \/ ~IsNum(row.TH_Practical_Worst_Case)
    \/ ~IsNum(row.CT_Best_Case)
    \/ ~IsNum(row.CT_Worst_Case)
    \/ ~IsNum(row.CT_Practical_Worst_Case)

\* df_scenarios(self, max_wip): every column is computed over the whole index;
\* TH_worst() is evaluated once, whatever the index; any exception leaves the call
df_scenarios(max_wip) ==
    LET idx == index(max_wip)
        rows == [i \in 1..Len(idx) |-> Row(idx[i])]
        raises == ~IsNum(TH_worst) \/ \E i \in 1..Len(rows) : RowRaises(rows[i])
    IN  /\ op' = "df_scenarios"
        /\ arg' = Rat(max_wip, 1)
        /\ ret' = NoValue
        /\ df' = IF raises THEN <<>> ELSE rows
        /\ exc' = IF raises THEN "ZeroDivisionError" ELSE "None"
        /\ UNCHANGED self

Call_df_scenarios == \E max_wip \in (0 - MaxNeg)..MaxWip : df_scenarios(max_wip)

\* r_b and T_0 are plain public attributes: a caller can assign them
Assign_r_b ==
    \E v \in Numbers :
        /\ r_b' = v
        /\ op' = "setattr"
        /\ arg' = v
        /\ ret' = NoValue
        /\ df' = <<>>
        /\ exc' = "None"
        /\ UNCHANGED <<T_0, W_0, _name>>

Assign_T_0 ==
    \E v \in Numbers :
        /\ T_0' = v
        /\ op' = "setattr"
        /\ arg' = v
        /\ ret' = NoValue
        /\ df' = <<>>
        /\ exc' = "None"
        /\ UNCHANGED <<r_b, W_0, _name>>

Next ==
    \/ Call_CT_best
    \/ Call_TH_best
    \/ Call_CT_worst
    \/ Call_TH_worst
    \/ Call_CT_PWC
    \/ Call_TH_PWC
    \/ Call_df_scenarios

\* the object used through its methods and df_scenarios only
Spec == Init /\ [][Next]_vars

NextAssign == Next \/ Assign_r_b \/ Assign_T_0

\* the object used through its methods, df_scenarios and attribute assignment
SpecAssign == Init /\ [][NextAssign]_vars

(* ------------------------------ claims -------------------------------- *)
\* a valid line model: r_b > 0 and T_0 > 0
Valid == Lt(Zero, r_b) /\ Lt(Zero, T_0)
\* a WIP level w > 0
Positive(w) == IsNum(w) /\ Lt(Zero, w)
\* the formulas that take a WIP level
WipOps == {"CT_best", "TH_best", "CT_worst", "CT_PWC", "TH_PWC"}

\* C1: construction with r_b <= 0 or T_0 <= 0 fails with InvalidParameterError,
\* and succeeds only when both are positive.
C1_ConstructionRejectsNonPositive ==
    op = "__init__" =>
        IF Valid THEN exc = "None" ELSE exc = "InvalidParameterError"

\* C2: on a valid line model, a formula called with w <= 0 fails with
\* InvalidParameterError instead of returning a number.
C2_FormulaRejectsNonPositiveWip ==
    (Valid /\ op \in WipOps /\ Le(arg, Zero)) =>
        (exc = "InvalidParameterError" /\ ~IsNum(ret))

\* C3: df_scenarios called with max_wip < 1 fails with InvalidParameterError
\* and returns no table.
C3_TableRejectsMaxWipBelowOne ==
    (Valid /\ op = "df_scenarios" /\ Lt(arg, One)) =>
        exc = "InvalidParameterError"

\* C4: on a valid line model and max_wip >= 1, df_scenarios returns exactly
\* max_wip rows, whose WIP fields are 1, 2, ..., max_wip in row order, the row
\* of WIP w holding the six formula values of that w.
C4_TableRows ==
    (Valid /\ op = "df_scenarios" /\ Le(One, arg)) =>
        /\ exc = "None"
        /\ Len(df) = arg[1]
        /\ \A i \in 1..Len(df) :
              /\ df[i].WIP = i
              /\ df[i].TH_Best_Case = TH_best(Rat(i, 1))
              /\ df[i].TH_Worst_Case = TH_worst
              /\ df[i].TH_Practical_Worst_Case = TH_PWC(Rat(i, 1))
              /\ df[i].CT_Best_Case = CT_best(Rat(i, 1))
              /\ df[i].CT_Worst_Case = CT_worst(Rat(i, 1))
              /\ df[i].CT_Practical_Worst_Case = CT_PWC(Rat(i, 1))

C4_Witness ==
    /\ Valid /\ op = "df_scenarios" /\ exc = "None"
    /\ Len(df) >= 2
    /\ df[Len(df)].WIP = Len(df)
    /\ df[1].CT_Practical_Worst_Case # df[2].CT_Practical_Worst_Case

\* C5 as stated: Little's Law, TH * CT = w, holds in the three regimes for every
\* valid line model and every w > 0.
C5_LittlesLaw ==
    (Valid /\ Positive(arg)) =>
        /\ op = "TH_best" => Mul(ret, CT_best(arg)) = arg
        /\ op = "CT_best" => Mul(TH_best(arg), ret) = arg
        /\ op = "CT_worst" => Mul(TH_worst, ret) = arg
        /\ op = "TH_PWC" => Mul(ret, CT_PWC(arg)) = arg
        /\ op = "CT_PWC" => Mul(TH_PWC(arg), ret) = arg

\* C5 amended: Little's Law holds for the best and the worst case at every
\* w > 0, and for the practical worst case at every w > 0 with W_0 + w # 1.
C5_LittlesLawOffThePole ==
    (Valid /\ Positive(arg)) =>
        /\ op = "TH_best" => Mul(ret, CT_best(arg)) = arg
        /\ op = "CT_best" => Mul(TH_best(arg), ret) = arg
        /\ op = "CT_worst" => Mul(TH_worst, ret) = arg
        /\ (op = "TH_PWC" /\ Add(W_0, arg) # One) => Mul(ret, CT_PWC(arg)) = arg
        /\ (op = "CT_PWC" /\ Add(W_0, arg) # One) => Mul(TH_PWC(arg), ret) = arg

C5_Witness ==
    /\ Valid /\ Positive(arg) /\ op = "TH_PWC"
    /\ Lt(Add(W_0, arg), One)
    /\ Lt(ret, Zero)
    /\ Mul(ret, CT_PWC(arg)) = arg

\* C6: the best-case formulas match the piecewise reference: T_0 and w / T_0 up
\* to W_0, w / r_b and r_b above it, and at w = W_0 the two branches of each
\* function give the same value.
C6_BestCasePiecewise ==
    (Valid /\ Positive(arg)) =>
        /\ (op = "CT_best" /\ Le(arg, W_0)) => ret = T_0
        /\ (op = "CT_best" /\ Lt(W_0, arg)) => ret = Div(arg, r_b)
        /\ (op = "CT_best" /\ arg = W_0) => (ret = T_0 /\ ret = Div(arg, r_b))
        /\ (op = "TH_best" /\ Le(arg, W_0)) => ret = Div(arg, T_0)
        /\ (op = "TH_best" /\ Lt(W_0, arg)) => ret = r_b
        /\ (op = "TH_best" /\ arg = W_0) => (ret = Div(arg, T_0) /\ ret = r_b)

C6_Witness ==
    /\ Valid /\ op = "CT_best" /\ arg = W_0
    /\ arg # One
    /\ ret = Div(W_0, r_b)

\* C7: the critical WIP is never stale: no operation of a caller, attribute
\* assignment included, takes a valid line model with W_0 = r_b * T_0 to a state
\* where W_0 # r_b * T_0, or changes its r_b, T_0 or W_0.
C7_CriticalWipNeverStale ==
    [][(Valid /\ W_0 = Mul(r_b, T_0)) =>
           (W_0' = Mul(r_b', T_0') /\ UNCHANGED <<r_b, T_0, W_0>>)]_vars

\* C8 as stated: on a valid line model every formula returns a value at every
\* w > 0, integer or not.
C8_FormulasTotal ==
    (Valid /\ (op = "TH_worst" \/ (op \in WipOps /\ Positive(arg)))) =>
        (exc = "None" /\ IsNum(ret))

\* C8 amended: on a valid line model every formula returns a value at every
\* w > 0, except TH_PWC at W_0 + w = 1, which raises ZeroDivisionError.
C8_FormulasTotalOffThePole ==
    (Valid /\ (op = "TH_worst" \/ (op \in WipOps /\ Positive(arg)))) =>
        IF op = "TH_PWC" /\ Add(W_0, arg) = One
        THEN exc = "ZeroDivisionError"
        ELSE exc = "None" /\ IsNum(ret)

C8_Witness ==
    /\ Valid /\ op = "TH_PWC" /\ Positive(arg)
    /\ arg[2] # 1
    /\ Lt(W_0, One)
    /\ Lt(One, Add(W_0, arg))
    /\ exc = "None"

\* C9: CT_worst and CT_PWC are strictly increasing in w, TH_best is non-decreasing
\* in w and never above r_b.
C9_Monotone ==
    (Valid /\ Positive(arg)) =>
        /\ op = "CT_worst" =>
              \A w1 \in Numbers : (Positive(w1) /\ Lt(w1, arg)) => Lt(CT_worst(w1), ret)
        /\ op = "CT_PWC" =>
              \A w1 \in Numbers : (Positive(w1) /\ Lt(w1, arg)) => Lt(CT_PWC(w1), ret)
        /\ op = "TH_best" =>
              /\ \A w1 \in Numbers : (Positive(w1) /\ Lt(w1, arg)) => Le(TH_best(w1), ret)
              /\ Le(ret, r_b)

C9_Witness ==
    /\ Valid /\ op = "TH_best" /\ Lt(W_0, arg)
    /\ ret = r_b
    /\ \E w1 \in Numbers : Positive(w1) /\ Lt(w1, W_0) /\ Lt(TH_best(w1), ret)

\* the practical worst case of a row lies between its best and its worst case
RowBetween(row) ==
    /\ Le(row.TH_Worst_Case, row.TH_Practical_Worst_Case)
    /\ Le(row.TH_Practical_Worst_Case, row.TH_Best_Case)
    /\ Le(row.CT_Best_Case, row.CT_Practical_Worst_Case)
    /\ Le(row.CT_Practical_Worst_Case, row.CT_Worst_Case)

\* C10 as stated: in every row of the table of a valid line model, whatever W_0,
\* TH_worst <= TH_PWC <= TH_best and CT_best <= CT_PWC <= CT_worst.
C10_PracticalWorstBetween ==
    (Valid /\ op = "df_scenarios" /\ exc = "None") =>
        \A i \in 1..Len(df) : RowBetween(df[i])

\* C10 amended: the same, for the valid line models with W_0 >= 1.
C10_PracticalWorstBetweenFromOne ==
    (Valid /\ Le(One, W_0) /\ op = "df_scenarios" /\ exc = "None") =>
        \A i \in 1..Len(df) : RowBetween(df[i])

C10_Witness ==
    /\ Valid /\ Lt(One, W_0) /\ op = "df_scenarios" /\ exc = "None"
    /\ Len(df) >= 2
    /\ Lt(df[2].TH_Worst_Case, df[2].TH_Practical_Worst_Case)
    /\ Lt(df[2].TH_Practical_Worst_Case, df[2].TH_Best_Case)
    /\ Lt(df[2].CT_Best_Case, df[2].CT_Practical_Worst_Case)
    /\ Lt(df[2].CT_Practical_Worst_Case, df[2].CT_Worst_Case)

====
